---- MODULE Spec2Model ----
(***************************************************************************)
(* Model of fastAPI-Project-01/app/main.py: a FastAPI application with the *)
(* handlers health, root, echo and predict.  A request occupies a slot; it *)
(* is received, its handler runs (a coroutine without an await, hence one  *)
(* atomic step of the event loop), the response is sent, and the           *)
(* background tasks the handler registered are run.                        *)
(*                                                                         *)
(* Strings are sequences of one-character strings.  A float score is       *)
(* modelled by the integer it converts (float(len(t))).  Optional[int] is  *)
(* a sequence of length at most one: None is <<>>, the integer k is <<k>>. *)
(***************************************************************************)
EXTENDS Integers, Sequences, FiniteSets, TLC

VARIABLES pc, req, resp, tasks, inferred, log

vars == <<pc, req, resp, tasks, inferred, log>>

(***************************************************************************)
(* Bounds of the model.                                                    *)
(***************************************************************************)
MaxLen == 4
MaxTopK == 3
MaxTime == 2
NReq == 2

(***************************************************************************)
(* Input universes.                                                        *)
(***************************************************************************)
Whitespace == {" ", "\t", "\n", "\r"}

Chars == {" ", "a", "b"}

ExampleText == <<"a", " ", "b", "b", " ", "c", "c", "c">>

ExtraTexts == {ExampleText, <<"\t", "\n">>, <<"\t", "a", "b", "\n", "b", "a", "\r">>}

Texts == UNION {[1..n -> Chars] : n \in 0..MaxLen} \cup ExtraTexts

None == <<>>

Some(k) == <<k>>

TopKs == {None} \cup {Some(k) : k \in (0 - MaxTopK)..MaxTopK}

ConcTexts == {<<" ">>, <<"a", " ", "b", "b">>, <<"b", "a", " ", "a", "b">>}

ConcTopKs == {None, Some(0 - 1), Some(0), Some(1), Some(2)}

Messages == {"hello", "x"}

Times == 1..MaxTime

Slots == 1..NReq

SoloSlots == {1}

NoReq == [kind |-> "none"]

NoResp == [status |-> 0]

(***************************************************************************)
(* Python built-ins used by the handlers.                                  *)
(***************************************************************************)
Max(a, b) == IF a >= b THEN a ELSE b

Min(a, b) == IF a <= b THEN a ELSE b

RECURSIVE lstrip(_)
lstrip(s) ==
    IF s = <<>> THEN s
    ELSE IF Head(s) \in Whitespace THEN lstrip(Tail(s)) ELSE s

RECURSIVE rstrip(_)
rstrip(s) ==
    IF s = <<>> THEN s
    ELSE IF s[Len(s)] \in Whitespace THEN rstrip(SubSeq(s, 1, Len(s) - 1)) ELSE s

\* str.strip(): leading and trailing whitespace removed.
strip(s) == rstrip(lstrip(s))

\* str.split() scanning left to right: cur is the word being read, out the
\* words read so far; runs of whitespace separate words, no word is empty.
RECURSIVE SplitScan(_, _, _)
SplitScan(rest, cur, out) ==
    IF rest = <<>> THEN (IF cur = <<>> THEN out ELSE Append(out, cur))
    ELSE IF Head(rest) \in Whitespace
         THEN SplitScan(Tail(rest), <<>>, IF cur = <<>> THEN out ELSE Append(out, cur))
         ELSE SplitScan(Tail(rest), Append(cur, Head(rest)), out)

split(s) == SplitScan(s, <<>>, <<>>)

Reverse(s) == [i \in 1..Len(s) |-> s[Len(s) + 1 - i]]

\* w inserted into the list s, sorted by ascending length, after every
\* element that is not longer than w (a stable insertion).
RECURSIVE InsertByLen(_, _)
InsertByLen(s, w) ==
    IF s = <<>> THEN <<w>>
    ELSE IF Len(Head(s)) <= Len(w) THEN <<Head(s)>> \o InsertByLen(Tail(s), w)
         ELSE <<w>> \o s

\* A stable sort by ascending key len(w).
RECURSIVE StableSortByLen(_)
StableSortByLen(s) ==
    IF s = <<>> THEN <<>>
    ELSE InsertByLen(StableSortByLen(SubSeq(s, 1, Len(s) - 1)), s[Len(s)])

\* sorted(words, key=len, reverse=True) without the care for ties: the
\* ascending stable sort read backwards.
sorted_ties_reversed(words) == Reverse(StableSortByLen(words))

\* sorted(words, key=len) : reverse=True forgotten.
sorted_ascending(words) == StableSortByLen(words)

\* sorted(words, key=lambda w: len(w), reverse=True): Python reverses the
\* list, sorts it stably by ascending key and reverses the result, which
\* keeps equal keys in their original order.
sorted_desc(words) == Reverse(StableSortByLen(Reverse(words)))

\* scored[: n] for n >= 0.
Take(s, n) == SubSeq(s, 1, Min(n, Len(s)))

\* _simple_inference(text, top_k) for an integer top_k.
simple_inference(text, top_k) ==
    LET words == split(text)
        scored == sorted_desc(words)
        top == Take(scored, Max(1, top_k))
    IN  [i \in 1..Len(top) |-> [token |-> top[i], score |-> Len(top[i])]]

\* class PredictRequest(BaseModel): text: str; top_k: Optional[int] = 1.
\* A JSON body without top_k gets the default, a null top_k stays None.
PredictRequest(body) ==
    [text |-> body.text,
     top_k |-> IF "top_k" \in DOMAIN body THEN body.top_k ELSE Some(1)]

\* raise HTTPException(status_code=..., detail=...), as the client sees it.
HTTPException(status_code, detail) ==
    [status |-> status_code, body |-> [detail |-> detail]]

\* An exception no handler catches: the server answers 500.
InternalServerError == [status |-> 500, body |-> [detail |-> "Internal Server Error"]]

\* PredictResponse(input=..., top_k=..., predictions=...) returned with 200.
PredictResponse(input, top_k, predictions) ==
    [status |-> 200,
     body |-> [input |-> input, top_k |-> top_k, predictions |-> predictions]]

\* The task add_task registers: logger.info with the formatted message
\* f"Predicted for input length={len(text)} top_k={req.top_k}".
LogTask(text, top_k) ==
    [level |-> "INFO", length |-> Len(text), top_k |-> top_k]

\* The task registered and the validation skipped for the log: the entry is
\* queued for a request that is then rejected.
predict_log_first(body) ==
    LET r == PredictRequest(body)
        text == strip(r.text)
    IN  IF text = <<>>
        THEN [resp |-> HTTPException(400, "text must not be empty"),
              tasks |-> <<LogTask(text, r.top_k)>>, inferred |-> FALSE]
        ELSE IF r.top_k = None
        THEN [resp |-> InternalServerError, tasks |-> <<>>, inferred |-> TRUE]
        ELSE [resp |-> PredictResponse(text, r.top_k[1], simple_inference(text, r.top_k[1])),
              tasks |-> <<LogTask(text, r.top_k)>>, inferred |-> TRUE]

\* The emptiness test made on req.text instead of the stripped text.
predict_unstripped_test(body) ==
    LET r == PredictRequest(body)
        text == strip(r.text)
    IN  IF r.text = <<>>
        THEN [resp |-> HTTPException(400, "text must not be empty"),
              tasks |-> <<>>, inferred |-> FALSE]
        ELSE IF r.top_k = None
        THEN [resp |-> InternalServerError, tasks |-> <<>>, inferred |-> TRUE]
        ELSE [resp |-> PredictResponse(text, r.top_k[1], simple_inference(text, r.top_k[1])),
              tasks |-> <<LogTask(text, r.top_k)>>, inferred |-> TRUE]

\* The handler predict, from the request body to what it leaves behind:
\* the response, the background tasks registered, and whether
\* _simple_inference was called.
\*   line 87-89: text = req.text.strip(); empty -> HTTPException 400;
\*   line 91:    _simple_inference(text, req.top_k); with top_k None,
\*               max(1, None) at line 78 raises TypeError (after split and
\*               sorted ran), which nothing catches;
\*   line 93:    add_task(logger.info, message);
\*   line 94:    PredictResponse(input=text, top_k=req.top_k, ...).
predict(body) ==
    LET r == PredictRequest(body)
        text == strip(r.text)
    IN  IF text = <<>>
        THEN [resp |-> HTTPException(400, "text must not be empty"),
              tasks |-> <<>>, inferred |-> FALSE]
        ELSE IF r.top_k = None
        THEN [resp |-> InternalServerError, tasks |-> <<>>, inferred |-> TRUE]
        ELSE [resp |-> PredictResponse(text, r.top_k[1], simple_inference(text, r.top_k[1])),
              tasks |-> <<LogTask(text, r.top_k)>>, inferred |-> TRUE]

\* The handler echo.
echo(message) == [status |-> 200, body |-> [echo |-> message]]

\* The handler root.
root == [status |-> 200, body |-> [message |-> "Hello from FastAPI + Gunicorn!"]]

\* The handler health, when time.time() returns t.
health(t) == [status |-> 200, body |-> [status |-> "ok", uptime |-> t]]

\* Every handler instance reads the request of the first request in flight,
\* as if the request were kept in a module-level variable.
ReqOf_shared(r) == req[CHOOSE q \in Slots : pc[q] # "idle"]

\* The request bound to the handler's parameter in slot r.
ReqOf(r) == req[r]

(***************************************************************************)
(* The state machine.                                                      *)
(***************************************************************************)
Init ==
    /\ pc = [r \in Slots |-> "idle"]
    /\ req = [r \in Slots |-> NoReq]
    /\ resp = [r \in Slots |-> NoResp]
    /\ tasks = [r \in Slots |-> <<>>]
    /\ inferred = [r \in Slots |-> FALSE]
    /\ log = <<>>

\* The JSON bodies PredictRequest accepts, over texts T and top_k values K.
Bodies(T, K) ==
    {[text |-> t] : t \in T} \cup {[text |-> t, top_k |-> k] : t \in T, k \in K}

Receive(r, rq) ==
    /\ pc[r] = "idle"
    /\ pc' = [pc EXCEPT ![r] = "received"]
    /\ req' = [req EXCEPT ![r] = rq]
    /\ UNCHANGED <<resp, tasks, inferred, log>>

ReceivePredict(r, T, K) ==
    \E body \in Bodies(T, K) : Receive(r, [kind |-> "predict", body |-> body])

ReceiveEcho(r) ==
    \E m \in Messages : Receive(r, [kind |-> "echo", message |-> m])

ReceiveRoot(r) == Receive(r, [kind |-> "root"])

ReceiveHealth(r) == Receive(r, [kind |-> "health"])

\* POST /predict: the handler runs to its return or its exception.
Predict(r) ==
    /\ pc[r] = "received"
    /\ ReqOf(r).kind = "predict"
    /\ LET out == predict(ReqOf(r).body)
       IN  /\ resp' = [resp EXCEPT ![r] = out.resp]
           /\ tasks' = [tasks EXCEPT ![r] = out.tasks]
           /\ inferred' = [inferred EXCEPT ![r] = out.inferred]
    /\ pc' = [pc EXCEPT ![r] = "respond"]
    /\ UNCHANGED <<req, log>>

\* GET /echo/{message}.
Echo(r) ==
    /\ pc[r] = "received"
    /\ ReqOf(r).kind = "echo"
    /\ resp' = [resp EXCEPT ![r] = echo(ReqOf(r).message)]
    /\ pc' = [pc EXCEPT ![r] = "respond"]
    /\ UNCHANGED <<req, tasks, inferred, log>>

\* GET /.
Root(r) ==
    /\ pc[r] = "received"
    /\ ReqOf(r).kind = "root"
    /\ resp' = [resp EXCEPT ![r] = root]
    /\ pc' = [pc EXCEPT ![r] = "respond"]
    /\ UNCHANGED <<req, tasks, inferred, log>>

\* GET /health.
Health(r) ==
    /\ pc[r] = "received"
    /\ ReqOf(r).kind = "health"
    /\ \E t \in Times : resp' = [resp EXCEPT ![r] = health(t)]
    /\ pc' = [pc EXCEPT ![r] = "respond"]
    /\ UNCHANGED <<req, tasks, inferred, log>>

\* The server sends the response the handler left.
Send(r) ==
    /\ pc[r] = "respond"
    /\ pc' = [pc EXCEPT ![r] = "sent"]
    /\ UNCHANGED <<req, resp, tasks, inferred, log>>

\* The task runs and stays registered, to run again.
RunBackground_again(r) ==
    /\ pc[r] \in {"respond", "sent"}
    /\ tasks[r] # <<>>
    /\ Len(log) < 2 * NReq
    /\ log' = Append(log, [slot |-> r, entry |-> Head(tasks[r])])
    /\ UNCHANGED <<pc, req, resp, tasks, inferred>>

\* A registered background task runs: logger.info writes the entry.  The
\* task may run at any moment after the handler returned, before or after
\* the response is sent, or never.  An entry of the log carries the slot of
\* its request, which the program does not write, to tell the entries apart.
RunBackground(r) ==
    /\ pc[r] \in {"respond", "sent"}
    /\ tasks[r] # <<>>
    /\ log' = Append(log, [slot |-> r, entry |-> Head(tasks[r])])
    /\ tasks' = [tasks EXCEPT ![r] = Tail(tasks[r])]
    /\ UNCHANGED <<pc, req, resp, inferred>>

Step(r, T, K) ==
    \/ ReceivePredict(r, T, K)
    \/ ReceiveEcho(r)
    \/ ReceiveRoot(r)
    \/ ReceiveHealth(r)
    \/ Predict(r)
    \/ Echo(r)
    \/ Root(r)
    \/ Health(r)
    \/ Send(r)
    \/ RunBackground(r)

\* One request at a time, over the large input universe.
Next == \E r \in SoloSlots : Step(r, Texts, TopKs)

Spec == Init /\ [][Next]_vars

\* NReq requests in flight together, over a small input universe.
NextConc == \E r \in Slots : Step(r, ConcTexts, ConcTopKs)

SpecConc == Init /\ [][NextConc]_vars

(***************************************************************************)
(* Vocabulary of the properties, stated on the request text itself and     *)
(* not through strip, split or sorted.                                     *)
(***************************************************************************)
IsPredict(r) == req[r].kind = "predict"

Handled(r) == pc[r] \in {"respond", "sent"}

TextOf(r) == req[r].body.text

\* The top_k a request asks for: its top_k, or 1 when it gives none.
RequestedTopK(r) ==
    IF "top_k" \in DOMAIN req[r].body THEN req[r].body.top_k ELSE Some(1)

IsBlank(t) == \A i \in 1..Len(t) : t[i] \in Whitespace

\* The tokens of t as <<first, last>> positions: the maximal runs of
\* characters that are not whitespace.
TokenSpans(t) ==
    {s \in (1..Len(t)) \X (1..Len(t)) :
        /\ s[1] <= s[2]
        /\ \A k \in s[1]..s[2] : t[k] \notin Whitespace
        /\ (s[1] = 1 \/ t[s[1] - 1] \in Whitespace)
        /\ (s[2] = Len(t) \/ t[s[2] + 1] \in Whitespace)}

SpanLen(s) == s[2] - s[1] + 1

\* The i-th token of t by descending length, earlier tokens first among
\* tokens of one length.
RankedSpan(t, i) ==
    CHOOSE s \in TokenSpans(t) :
        Cardinality({u \in TokenSpans(t) :
            \/ SpanLen(u) > SpanLen(s)
            \/ SpanLen(u) = SpanLen(s) /\ u[1] < s[1]}) = i - 1

ExpectedPredictions(t, k) ==
    [i \in 1..Min(Max(1, k), Cardinality(TokenSpans(t))) |->
        LET s == RankedSpan(t, i)
        IN  [token |-> SubSeq(t, s[1], s[2]), score |-> SpanLen(s)]]

\* The tokens of t of length n, in the order they occur in t.
TokensOfLen(t, n) ==
    LET S == {s \in TokenSpans(t) : SpanLen(s) = n}
    IN  [i \in 1..Cardinality(S) |->
            LET s == CHOOSE u \in S : Cardinality({v \in S : v[1] < u[1]}) = i - 1
            IN  SubSeq(t, s[1], s[2])]

\* The tokens of the predictions ps that have length n, in their order.
PredictedOfLen(ps, n) ==
    LET HasLen(p) == Len(p.token) = n
        sel == SelectSeq(ps, HasLen)
    IN  [i \in 1..Len(sel) |-> sel[i].token]

IsPrefix(a, b) == Len(a) <= Len(b) /\ a = SubSeq(b, 1, Len(a))

\* t without its leading and trailing whitespace.
Trimmed(t) ==
    LET I == {i \in 1..Len(t) : t[i] \notin Whitespace}
    IN  IF I = {} THEN <<>>
        ELSE SubSeq(t, CHOOSE i \in I : \A j \in I : i <= j,
                       CHOOSE i \in I : \A j \in I : i >= j)

LoggedFor(r) == {i \in 1..Len(log) : log[i].slot = r}

(***************************************************************************)
(* C1: a /predict request whose text is empty or only whitespace gets the  *)
(* 400 response with detail "text must not be empty", whatever its top_k.  *)
(***************************************************************************)
C1_BlankTextRejected ==
    \A r \in Slots :
        (IsPredict(r) /\ Handled(r) /\ IsBlank(TextOf(r)))
            => resp[r] = [status |-> 400, body |-> [detail |-> "text must not be empty"]]

C1_Witness ==
    /\ pc[1] = "sent"
    /\ IsPredict(1)
    /\ req[1].body = [text |-> <<" ", " ">>, top_k |-> None]
    /\ resp[1].status = 400

C3_DescendingAndTiesInTextOrder ==
    \A r \in Slots :
        (IsPredict(r) /\ Handled(r) /\ resp[r].status = 200)
            => LET ps == resp[r].body.predictions
               IN  /\ \A i \in 1..Len(ps) : \A j \in 1..Len(ps) :
                          i < j => Len(ps[i].token) >= Len(ps[j].token)
                   /\ \A n \in 1..Len(TextOf(r)) :
                          IsPrefix(PredictedOfLen(ps, n), TokensOfLen(TextOf(r), n))

C3_Witness ==
    /\ pc[1] = "sent"
    /\ IsPredict(1)
    /\ resp[1].status = 200
    /\ Len(resp[1].body.predictions) >= 2
    /\ resp[1].body.predictions[1].score = resp[1].body.predictions[2].score
    /\ resp[1].body.predictions[1].token # resp[1].body.predictions[2].token

(***************************************************************************)
(* C4: for every text that is not blank and every top_k, /predict returns  *)
(* a response with at least one prediction.                                *)
(***************************************************************************)
C4_AtLeastOnePrediction ==
    \A r \in Slots :
        (IsPredict(r) /\ Handled(r) /\ ~IsBlank(TextOf(r)))
            => /\ resp[r].status = 200
               /\ Len(resp[r].body.predictions) >= 1

(***************************************************************************)
(* C5: a /predict request with top_k <= 0 gets the response the request    *)
(* with the same text and top_k = 1 gets.                                  *)
(***************************************************************************)
C5_NonPositiveTopKAsOne ==
    \A r \in Slots : \A q \in Slots :
        (/\ IsPredict(r) /\ Handled(r)
         /\ IsPredict(q) /\ Handled(q)
         /\ TextOf(r) = TextOf(q)
         /\ RequestedTopK(r) # None /\ RequestedTopK(q) = Some(1))
            => (RequestedTopK(r)[1] <= 0 => resp[r] = resp[q])

(***************************************************************************)
(* C6: in a successful /predict response top_k is the effective top_k,     *)
(* max(1, requested top_k), and input is the text of the request (the      *)
(* text without its surrounding whitespace, as the data model has it).     *)
(***************************************************************************)
C6_ResponseHasEffectiveTopK ==
    \A r \in Slots :
        (IsPredict(r) /\ Handled(r) /\ resp[r].status = 200)
            => /\ resp[r].body.top_k = Max(1, RequestedTopK(r)[1])
               /\ resp[r].body.input = Trimmed(TextOf(r))

(***************************************************************************)
(* C7: a /predict request ends in an error exactly when its text is blank, *)
(* and the error is then the 400; every other request the request model    *)
(* accepts (top_k omitted, null, negative, zero, positive) gets a 200.     *)
(***************************************************************************)
C7_OnlyBlankTextFails ==
    \A r \in Slots :
        (IsPredict(r) /\ Handled(r))
            => IF IsBlank(TextOf(r)) THEN resp[r].status = 400 ELSE resp[r].status = 200

(***************************************************************************)
(* C8: the log entry of a request is emitted at most once; the response is *)
(* set when the handler returns, before the log task runs, and no later    *)
(* step changes it, whether the task runs before the response is sent,     *)
(* after it or never; a response that is ready can always be sent, with    *)
(* the task still waiting or not.                                          *)
(***************************************************************************)
C8_LogFireAndForget ==
    /\ [](\A r \in Slots :
            /\ Cardinality(LoggedFor(r)) <= 1
            /\ (tasks[r] # <<>> \/ LoggedFor(r) # {}) => resp[r] # NoResp
            /\ pc[r] = "respond" => ENABLED Send(r))
    /\ [][\A r \in Slots : resp[r] # NoResp => resp'[r] = resp[r]]_vars

C8_Witness ==
    \E r \in Slots : \E q \in Slots :
        /\ pc[r] = "sent" /\ tasks[r] # <<>> /\ LoggedFor(r) = {}
        /\ pc[q] = "respond" /\ LoggedFor(q) # {}

(***************************************************************************)
(* C9: whatever other requests are in flight and however their steps       *)
(* interleave, a /predict or /echo request gets the response its handler   *)
(* computes from that request alone.                                       *)
(***************************************************************************)
C9_HandledIndependently ==
    \A r \in Slots :
        Handled(r) =>
            /\ IsPredict(r) => resp[r] = predict(req[r].body).resp
            /\ req[r].kind = "echo" => resp[r] = echo(req[r].message)

C9_Witness ==
    /\ pc[1] = "respond" /\ IsPredict(1)
    /\ pc[2] = "sent" /\ IsPredict(2)
    /\ resp[1].status = 200 /\ resp[2].status = 200
    /\ resp[1] # resp[2]
    /\ LoggedFor(2) # {}

(***************************************************************************)
(* C10: a /predict request rejected with the 400 ran no inference and has  *)
(* no log task, registered or run; a log task or log entry exists only for *)
(* a request with a 200 response.                                          *)
(***************************************************************************)
C10_RejectedHasNoSideEffect ==
    \A r \in Slots :
        /\ (IsPredict(r) /\ Handled(r) /\ resp[r].status = 400)
               => (~inferred[r] /\ tasks[r] = <<>> /\ LoggedFor(r) = {})
        /\ (tasks[r] # <<>> \/ LoggedFor(r) # {}) => resp[r].status = 200

C10_Witness ==
    \E r \in Slots : \E q \in Slots :
        /\ pc[r] = "sent" /\ IsPredict(r) /\ resp[r].status = 400
        /\ pc[q] = "sent" /\ LoggedFor(q) # {}

====
